---- MODULE Spec2Model ----
(***************************************************************************)
(* Model of AcimEstimator::update (Firmware/MotorControl/                  *)
(* acim_estimator.cpp): the rotor-flux / stator-phase observer for AC      *)
(* induction motors.                                                       *)
(*                                                                         *)
(* Arithmetic.  A C++ float is modelled as a pair <<n, d>>:                *)
(*   d > 0   the finite value n/d, in lowest terms;                        *)
(*   d = 0   an IEEE-754 special value: <<0,0>> NaN, <<1,0>> +infinity,    *)
(*           <<-1,0>> -infinity.                                           *)
(* The operations F* below follow IEEE-754 on the special values (0/0,     *)
(* inf-inf and inf*0 are NaN, x/0 is an infinity, comparisons with NaN are *)
(* false) and are exact on finite values: rounding to 24 bits is not       *)
(* modelled.  Zero is the positive zero; rotor_flux_ never holds -0        *)
(* because it is reset to +0 and x + y never yields -0 from a +0 start.    *)
(*                                                                         *)
(* Ticks.  A uint32_t is modelled as two 16-bit limbs <<hi, lo>>, so that  *)
(* subtraction keeps its 32-bit width (modulo 2^32).                       *)
(***************************************************************************)
EXTENDS Integers, Naturals, Sequences, FiniteSets, TLC

\* ------------------------------------------------------------------ bounds
\* Number of update calls explored in one run.
MaxCalls == 4

\* Number of update calls in one run of the worked example: its 0.1 ms
\* steps multiply the denominator of rotor_flux by 200 each.
MaxScenarioCalls == 3

\* Largest number of elements of a buffer view; the arguments of its
\* operations range up to one more.
BufLen == 10

\* Number of update calls the second of two estimators has had before the
\* two are called together.
MaxSoloCalls == 2

\* Largest value of the processed-bytes counter handed to skip.
MaxProcessed == 5

\* ------------------------------------------------------------ float values
NaN  == <<0, 0>>
PInf == <<1, 0>>
NInf == <<-1, 0>>
Zero == <<0, 1>>

\* The value of a one-element set.  Every operator on floats and ticks binds
\* its arguments through it, so that an argument expression is evaluated
\* once per application, like a C++ argument passed by value.
The(S) == CHOOSE v \in S : TRUE

Abs(i) == IF i < 0 THEN -i ELSE i

Sgn(i) == IF i < 0 THEN -1 ELSE IF i = 0 THEN 0 ELSE 1

RECURSIVE GCD(_, _)
GCD(a0, b0) ==
    The({
        IF b = 0 THEN a ELSE GCD(b, a % b)
        : <<a, b>> \in {<<a0, b0>>} })

\* The finite value n/d (d # 0) in lowest terms with a positive denominator.
Norm(n0, d0) ==
    The({
        LET g == GCD(Abs(n), Abs(d))
            s == IF d < 0 THEN -1 ELSE 1
        IN  <<s * (n \div g), s * (d \div g)>>
        : <<n, d>> \in {<<n0, d0>>} })

IsNaN(x) == x[2] = 0 /\ x[1] = 0

IsInf(x) == x[2] = 0 /\ x[1] # 0

IsFinite(x) == x[2] # 0

FNeg(x0) ==
    The({
        <<-x[1], x[2]>>
        : x \in {x0} })

FAbs(x0) ==
    The({
        <<Abs(x[1]), x[2]>>
        : x \in {x0} })

FAdd(x0, y0) ==
    The({
        IF IsNaN(x) \/ IsNaN(y) THEN NaN
        ELSE IF IsInf(x) /\ IsInf(y) THEN (IF x = y THEN x ELSE NaN)
        ELSE IF IsInf(x) THEN x
        ELSE IF IsInf(y) THEN y
        ELSE LET g == GCD(x[2], y[2])
             IN  Norm(x[1] * (y[2] \div g) + y[1] * (x[2] \div g),
                      x[2] * (y[2] \div g))
        : <<x, y>> \in {<<x0, y0>>} })

FSub(x0, y0) ==
    The({
        FAdd(x, FNeg(y))
        : <<x, y>> \in {<<x0, y0>>} })

FMul(x0, y0) ==
    The({
        IF IsNaN(x) \/ IsNaN(y) THEN NaN
        ELSE IF IsInf(x) \/ IsInf(y)
             THEN (IF x[1] = 0 \/ y[1] = 0 THEN NaN
                   ELSE <<Sgn(x[1]) * Sgn(y[1]), 0>>)
        ELSE IF x[1] = 0 \/ y[1] = 0 THEN Zero
        ELSE LET g1 == GCD(Abs(x[1]), y[2])
                 g2 == GCD(Abs(y[1]), x[2])
             IN  Norm((x[1] \div g1) * (y[1] \div g2),
                      (x[2] \div g2) * (y[2] \div g1))
        : <<x, y>> \in {<<x0, y0>>} })

FDiv(x0, y0) ==
    The({
        IF IsNaN(x) \/ IsNaN(y) THEN NaN
        ELSE IF IsInf(x) THEN (IF IsInf(y) THEN NaN
                               ELSE IF y[1] < 0 THEN FNeg(x) ELSE x)
        ELSE IF IsInf(y) THEN Zero
        ELSE IF y[1] = 0 THEN (IF x[1] = 0 THEN NaN ELSE <<Sgn(x[1]), 0>>)
        ELSE FMul(x, Norm(y[2], y[1]))
        : <<x, y>> \in {<<x0, y0>>} })

\* x > y as the C++ operator > on floats: false when either side is NaN.
FGt(x0, y0) ==
    \E <<x, y>> \in {<<x0, y0>>} :
        IF IsNaN(x) \/ IsNaN(y) THEN FALSE
        ELSE IF x = y THEN FALSE
        ELSE IF x = PInf \/ y = NInf THEN TRUE
        ELSE IF x = NInf \/ y = PInf THEN FALSE
        ELSE x[1] * y[2] > y[1] * x[2]

FLe(x0, y0) ==
    \E <<x, y>> \in {<<x0, y0>>} :
        ~IsNaN(x) /\ ~IsNaN(y) /\ ~FGt(x, y)

\* x == y as the C++ operator == on floats: NaN equals nothing.
FEq(x0, y0) ==
    \E <<x, y>> \in {<<x0, y0>>} :
        ~IsNaN(x) /\ ~IsNaN(y) /\ x = y

\* ------------------------------------------------------------------- ticks
LimbBase == 65536

\* The uint32_t with value n, for 0 <= n < 2^31.
ToTicks(n) == <<n \div LimbBase, n % LimbBase>>

\* Hardware counter advancing by n ticks, wrapping at 2^32.
AddTicks(t0, n0) ==
    The({
        LET lo == t[2] + (n % LimbBase)
            hi == t[1] + (n \div LimbBase) + (lo \div LimbBase)
        IN  <<hi % LimbBase, lo % LimbBase>>
        : <<t, n>> \in {<<t0, n0>>} })

\* t numerically smaller than u, as unsigned 32-bit values.
TicksLess(t, u) == t[1] < u[1] \/ (t[1] = u[1] /\ t[2] < u[2])

\* TickDiff without the borrow between the two halves of the word.
TickDiff_NoBorrow(timestamp0, last0) ==
    The({
        <<(timestamp[1] - last[1]) % LimbBase, (timestamp[2] - last[2]) % LimbBase>>
        : <<timestamp, last>> \in {<<timestamp0, last0>>} })

\* TickDiff on signed words: the high half keeps its sign.
TickDiff_Signed(timestamp0, last0) ==
    The({
        LET lo == timestamp[2] - last[2]
            hi == timestamp[1] - last[1] - (IF lo < 0 THEN 1 ELSE 0)
        IN  <<hi, lo % LimbBase>>
        : <<timestamp, last>> \in {<<timestamp0, last0>>} })

\* timestamp - last_timestamp_ on uint32_t: subtraction modulo 2^32.
TickDiff(timestamp0, last0) ==
    The({
        LET lo == timestamp[2] - last[2]
            hi == timestamp[1] - last[1] - (IF lo < 0 THEN 1 ELSE 0)
        IN  <<hi % LimbBase, lo % LimbBase>>
        : <<timestamp, last>> \in {<<timestamp0, last0>>} })

\* static_cast<float>(uint32_t).
ToFloat(t0) ==
    The({
        <<t[1] * LimbBase + t[2], 1>>
        : t \in {t0} })

\* TIM_1_8_CLOCK_HZ, ticks per second.
ClockHz == 8000000

\* The literal 0.1f of the slip clamp.
Tenth == <<1, 10>>

\* Rational stand-in for M_PI.
Pi == <<22, 7>>

TwoPi == FMul(<<2, 1>>, Pi)

\* The integer nearest to the finite value x.
RoundInt(x0) ==
    The({
        (2 * x[1] + x[2]) \div (2 * x[2])
        : x \in {x0} })

\* wrap_pm_pi(x): x reduced by a whole number of turns into [-pi, pi].
wrap_pm_pi(x0) ==
    The({
        IF ~IsFinite(x) THEN NaN
        ELSE FSub(x, FMul(<<RoundInt(FDiv(x, TwoPi)), 1>>, TwoPi))
        : x \in {x0} })

is_nan(x) == IsNaN(x)

\* ------------------------------------------------------------------ inputs
\* std::optional<T>: has_value() and the value.
None(v) == [has |-> FALSE, val |-> v]

Some(v) == [has |-> TRUE, val |-> v]

\* Just below pi, so that adding the phase offset wraps for some slips only.
Phases == {<<31, 10>>}

PhaseVels == {<<100, 1>>}

Ids == {Zero, <<10, 1>>, NaN}

Iqs == {Zero, <<1, 2>>, <<5, 1>>}

RotorPhaseIn == {None(Zero)} \cup {Some(v) : v \in Phases}

RotorPhaseVelIn == {None(Zero)} \cup {Some(v) : v \in PhaseVels}

IdqIn == {None(<<Zero, Zero>>)} \cup {Some(<<d, q>>) : d \in Ids, q \in Iqs}

\* Ticks the hardware counter advances between two update calls:
\* none (a repeated timestamp), 10 ms and 30 ms at ClockHz.
Advances == {0, 80000, 240000}

\* Counter value when the estimator is constructed: 2^32 - 80000, so that
\* the counter wraps during the calls.
StartTicks == {TickDiff(ToTicks(0), ToTicks(80000))}

\* Values of config_.slip_velocity.
SlipGains == {Zero, <<50, 1>>}

\* ------------------------------------------------------------ buffer views
\* fibre::generic_bufptr_t<T>: the view [begin_, end_) of an array.  Pointers
\* into the array are element indices.

\* generic_bufptr_t(T* begin, size_t length).
bufptr(begin, length) == [begin_ |-> begin, end_ |-> begin + length]

\* generic_bufptr_t(T* begin, T* end).
bufptr_range(begin, end) == [begin_ |-> begin, end_ |-> end]

\* size_t size() const.
size(b) == b.end_ - b.begin_

\* bool empty() const.
empty(b) == size(b) = 0

\* operator+= without the limit on num.
plus_assign_NoClamp(b, num) == bufptr_range(b.begin_ + num, b.end_)

\* operator+=(size_t num): if (num > size()) num = size(); begin_ += num;
plus_assign(b, num) ==
    LET n == IF num > size(b) THEN size(b) ELSE num
    IN  bufptr_range(b.begin_ + n, b.end_)

\* take that leaves out the last element asked for.
take_OneShort(b, num) ==
    LET n == IF num > size(b) THEN size(b) ELSE num
    IN  bufptr(b.begin_, IF n > 0 THEN n - 1 ELSE 0)

\* take without the limit on num.
take_NoClamp(b, num) == bufptr(b.begin_, num)

\* take(size_t num) const: if (num > size()) num = size();
\* return {begin_, num};
take(b, num) ==
    LET n == IF num > size(b) THEN size(b) ELSE num
    IN  bufptr(b.begin_, n)

\* skip without the limit on num.
skip_NoClamp(b, num) == bufptr_range(b.begin_ + num, b.end_)

\* skip(size_t num) const: if (num > size()) num = size();
\* return {begin_ + num, end_};
skip(b, num) ==
    LET n == IF num > size(b) THEN size(b) ELSE num
    IN  bufptr_range(b.begin_ + n, b.end_)

\* skip_processed that counts the bytes asked for.
skip_processed_Requested(b, num) == num

\* skip(size_t num, size_t* processed_bytes): what the call adds to
\* *processed_bytes, if (processed_bytes) (*processed_bytes) += num; after
\* num has been limited to size().
skip_processed(b, num) == IF num > size(b) THEN size(b) ELSE num

\* Lengths of the arrays the views are made over, and arguments num.
Lengths == 0 .. BufLen

Nums == 0 .. (BufLen + 1)

\* ------------------------------------------------------------------- state
VARIABLES
    active,            \* active_
    last_timestamp,    \* last_timestamp_
    rotor_flux,        \* rotor_flux_
    phase_offset,      \* phase_offset_
    slip_vel,          \* slip_vel_
    stator_phase_vel,  \* stator_phase_vel_
    stator_phase,      \* stator_phase_
    slip_velocity,     \* config_.slip_velocity
    clock,             \* the hardware tick counter: timestamp of the last call
    calls,             \* number of update calls made
    in,                \* what the last call read from the three input ports
    branch,            \* the return taken by the last call
    adv,               \* ticks between the last call and the one before it
    since,             \* ticks elapsed since the last call with all inputs present
    seen,              \* a call with all inputs present has been made
    gapped,            \* ticks passed in inactive cycles before the last bootstrap
    ticks,             \* timestamp - last_timestamp_ as taken by TickStep
    other,             \* a second AcimEstimator with the same configuration
    synced,            \* both bootstrapped in one call, same inputs since
    differed,          \* the two differed before that bootstrap
    buf,               \* the buffer view operated on
    ret,               \* the view returned by the last operation on buf
    bop,               \* the last operation on buf
    barg,              \* its argument
    bptr,              \* the last operation was handed &processed
    bpair,             \* it was buf.skip(n) right after buf.take(n)
    processed          \* size_t processed, the caller's counter

est == <<active, last_timestamp, rotor_flux, phase_offset, slip_vel,
         stator_phase_vel, stator_phase>>

hist == <<clock, calls, in, branch, adv, since, seen, gapped, ticks>>

bufv == <<buf, ret, bop, barg, bptr, bpair, processed>>

pairv == <<other, synced, differed>>

vars == <<est, slip_velocity, hist, bufv, pairv>>

\* The second estimator after construction.
InitOther ==
    /\ other = [active |-> FALSE, last_timestamp |-> ToTicks(0),
                rotor_flux |-> Zero, phase_offset |-> Zero,
                slip_vel |-> Zero, stator_phase_vel |-> Zero,
                stator_phase |-> Zero, calls |-> 0]
    /\ synced = FALSE
    /\ differed = FALSE

\* bufptr_t buf; the default-constructed, empty view.
InitView ==
    /\ buf = bufptr(0, 0)
    /\ ret = bufptr(0, 0)
    /\ bop = "none"
    /\ barg = 0
    /\ bptr = FALSE
    /\ bpair = FALSE
    /\ processed = 0

Init ==
    /\ active = FALSE
    /\ last_timestamp = ToTicks(0)
    /\ rotor_flux = Zero
    /\ phase_offset = Zero
    /\ slip_vel = Zero
    /\ stator_phase_vel = Zero
    /\ stator_phase = Zero
    /\ slip_velocity \in SlipGains
    /\ clock \in StartTicks
    /\ calls = 0
    /\ in = [rotor_phase |-> None(Zero), rotor_phase_vel |-> None(Zero),
             idq |-> None(<<Zero, Zero>>)]
    /\ branch = "none"
    /\ adv = 0
    /\ since = 0
    /\ seen = FALSE
    /\ gapped = FALSE
    /\ ticks = ToTicks(0)
    /\ InitOther
    /\ InitView

\* ------------------------------------------------------------------ update
\* Deactivate that also clears the flux estimate.
Deactivate_ClearsFlux ==
    /\ active' = FALSE
    /\ rotor_flux' = Zero
    /\ UNCHANGED <<last_timestamp, phase_offset, slip_vel, stator_phase_vel,
                   stator_phase>>

\* Deactivate that stores the timestamp before testing the ports.
Deactivate_StoresTimestamp ==
    /\ active' = FALSE
    /\ last_timestamp' = clock'
    /\ UNCHANGED <<rotor_flux, phase_offset, slip_vel, stator_phase_vel,
                   stator_phase>>

\* Deactivate that returns without clearing active_.
Deactivate_StaysActive ==
    UNCHANGED <<active, last_timestamp, rotor_flux, phase_offset, slip_vel,
                stator_phase_vel, stator_phase>>

\* if (!rotor_phase.has_value() || ...) { active_ = false; return; }
Deactivate ==
    /\ active' = FALSE
    /\ UNCHANGED <<last_timestamp, rotor_flux, phase_offset, slip_vel,
                   stator_phase_vel, stator_phase>>

\* Bootstrap that forgets to reset rotor_flux_.
Bootstrap_KeepsFlux ==
    /\ phase_offset' = Zero
    /\ active' = TRUE
    /\ UNCHANGED <<rotor_flux, slip_vel, stator_phase_vel, stator_phase>>

\* Bootstrap that forgets to reset phase_offset_.
Bootstrap_KeepsOffset ==
    /\ rotor_flux' = Zero
    /\ active' = TRUE
    /\ UNCHANGED <<phase_offset, slip_vel, stator_phase_vel, stator_phase>>

\* Bootstrap that forgets to set active_.
Bootstrap_StaysInactive ==
    /\ rotor_flux' = Zero
    /\ phase_offset' = Zero
    /\ UNCHANGED <<active, slip_vel, stator_phase_vel, stator_phase>>

\* Bootstrap that also clears the three outputs.
Bootstrap_ClearsOutputs ==
    /\ rotor_flux' = Zero
    /\ phase_offset' = Zero
    /\ active' = TRUE
    /\ slip_vel' = Zero
    /\ stator_phase_vel' = Zero
    /\ stator_phase' = Zero

\* if (!active_) { rotor_flux_ = 0; phase_offset_ = 0; active_ = true; return; }
Bootstrap ==
    /\ rotor_flux' = Zero
    /\ phase_offset' = Zero
    /\ active' = TRUE
    /\ UNCHANGED <<slip_vel, stator_phase_vel, stator_phase>>

\* dt = static_cast<float>(timestamp - last_timestamp_) / TIM_1_8_CLOCK_HZ
DeltaT(t0) ==
    The({
        FDiv(ToFloat(t), <<ClockHz, 1>>)
        : t \in {t0} })

\* FluxStep that restarts from zero when the flux is not a number.
FluxStep_RestartsOnNaN(flux0, id0, dt0) ==
    The({
        IF IsNaN(flux) THEN FMul(FMul(slip_velocity, id), dt)
        ELSE FAdd(flux, FMul(FMul(slip_velocity, FSub(id, flux)), dt))
        : <<flux, id, dt>> \in {<<flux0, id0, dt0>>} })

\* FluxStep with the error term negated.
FluxStep_SignFlipped(flux0, id0, dt0) ==
    The({
        FAdd(flux, FMul(FMul(slip_velocity, FSub(flux, id)), dt))
        : <<flux, id, dt>> \in {<<flux0, id0, dt0>>} })

\* FluxStep that adds the derivative without scaling it by dt.
FluxStep_NoDt(flux0, id0, dt0) ==
    The({
        FAdd(flux, FMul(slip_velocity, FSub(id, flux)))
        : <<flux, id, dt>> \in {<<flux0, id0, dt0>>} })

\* rotor_flux_ += config_.slip_velocity * (id - rotor_flux_) * dt
FluxStep(flux0, id0, dt0) ==
    The({
        FAdd(flux, FMul(FMul(slip_velocity, FSub(id, flux)), dt))
        : <<flux, id, dt>> \in {<<flux0, id0, dt0>>} })

\* config_.slip_velocity * (iq / rotor_flux_)
RawSlip(iq0, flux0) ==
    The({
        FMul(slip_velocity, FDiv(iq, flux))
        : <<iq, flux>> \in {<<iq0, flux0>>} })

\* ClampSlip that only rejects NaN.
ClampSlip_NoLimit(s0, dt0) ==
    The({
        IF is_nan(s) THEN Zero ELSE s
        : <<s, dt>> \in {<<s0, dt0>>} })

\* ClampSlip without the NaN test.
ClampSlip_NoNaNTest(s0, dt0) ==
    The({
        IF FGt(FAbs(s), FDiv(Tenth, dt)) THEN Zero ELSE s
        : <<s, dt>> \in {<<s0, dt0>>} })

\* ClampSlip with 1.0f in place of 0.1f.
ClampSlip_LooseLimit(s0, dt0) ==
    The({
        IF is_nan(s) \/ FGt(FAbs(s), FDiv(<<1, 1>>, dt)) THEN Zero ELSE s
        : <<s, dt>> \in {<<s0, dt0>>} })

\* ClampSlip that also zeroes the slip when no time has passed.
ClampSlip_GuardsZeroDt(s0, dt0) ==
    The({
        IF is_nan(s) \/ dt = Zero \/ FGt(FAbs(s), FDiv(Tenth, dt))
        THEN Zero ELSE s
        : <<s, dt>> \in {<<s0, dt0>>} })

\* ClampSlip that compares magnitudes of finite values only.
ClampSlip_FiniteOnly(s0, dt0) ==
    The({
        IF is_nan(s) \/ (IsFinite(s) /\ FGt(FAbs(s), FDiv(Tenth, dt)))
        THEN Zero ELSE s
        : <<s, dt>> \in {<<s0, dt0>>} })

\* if (is_nan(s) || (std::abs(s) > 0.1f / dt)) s = 0.0f;
ClampSlip(s0, dt0) ==
    The({
        IF is_nan(s) \/ FGt(FAbs(s), FDiv(Tenth, dt)) THEN Zero ELSE s
        : <<s, dt>> \in {<<s0, dt0>>} })

\* Integrate that adds the slip velocity to the rotor velocity before the
\* clamp has been applied to it.
Integrate_UnclampedVel(rotor_phase, rotor_phase_vel, id, iq, dt) ==
    \E flux \in {FluxStep(rotor_flux, id, dt)} :
    \E raw \in {RawSlip(iq, flux)} :
    \E slip \in {ClampSlip(raw, dt)} :
    \E offs \in {wrap_pm_pi(FAdd(phase_offset, FMul(slip, dt)))} :
        /\ rotor_flux' = flux
        /\ slip_vel' = slip
        /\ stator_phase_vel' = FAdd(rotor_phase_vel, raw)
        /\ phase_offset' = offs
        /\ stator_phase' = wrap_pm_pi(FAdd(rotor_phase, offs))
        /\ UNCHANGED active

\* Integrate that computes stator_phase_ from the phase offset of the
\* previous cycle.
Integrate_StaleOffset(rotor_phase, rotor_phase_vel, id, iq, dt) ==
    \E flux \in {FluxStep(rotor_flux, id, dt)} :
    \E slip \in {ClampSlip(RawSlip(iq, flux), dt)} :
    \E offs \in {wrap_pm_pi(FAdd(phase_offset, FMul(slip, dt)))} :
        /\ rotor_flux' = flux
        /\ slip_vel' = slip
        /\ stator_phase_vel' = FAdd(rotor_phase_vel, slip)
        /\ phase_offset' = offs
        /\ stator_phase' = wrap_pm_pi(FAdd(rotor_phase, phase_offset))
        /\ UNCHANGED active

\* Integrate that takes the slip from the rotor flux of the previous
\* cycle.
Integrate_SlipFromOldFlux(rotor_phase, rotor_phase_vel, id, iq, dt) ==
    \E flux \in {FluxStep(rotor_flux, id, dt)} :
    \E slip \in {ClampSlip(RawSlip(iq, rotor_flux), dt)} :
    \E offs \in {wrap_pm_pi(FAdd(phase_offset, FMul(slip, dt)))} :
        /\ rotor_flux' = flux
        /\ slip_vel' = slip
        /\ stator_phase_vel' = FAdd(rotor_phase_vel, slip)
        /\ phase_offset' = offs
        /\ stator_phase' = wrap_pm_pi(FAdd(rotor_phase, offs))
        /\ UNCHANGED active

\* Integrate that does not complete when the updated flux is zero (a
\* division that traps instead of giving inf or NaN).
Integrate_TrapsOnZeroFlux(rotor_phase, rotor_phase_vel, id, iq, dt) ==
    \E flux \in {FluxStep(rotor_flux, id, dt)} :
    \E slip \in {ClampSlip(RawSlip(iq, flux), dt)} :
    \E offs \in {wrap_pm_pi(FAdd(phase_offset, FMul(slip, dt)))} :
        /\ flux # Zero
        /\ rotor_flux' = flux
        /\ slip_vel' = slip
        /\ stator_phase_vel' = FAdd(rotor_phase_vel, slip)
        /\ phase_offset' = offs
        /\ stator_phase' = wrap_pm_pi(FAdd(rotor_phase, offs))
        /\ UNCHANGED active

Integrate(rotor_phase, rotor_phase_vel, id, iq, dt) ==
    \E flux \in {FluxStep(rotor_flux, id, dt)} :
    \E slip \in {ClampSlip(RawSlip(iq, flux), dt)} :
    \E offs \in {wrap_pm_pi(FAdd(phase_offset, FMul(slip, dt)))} :
        /\ rotor_flux' = flux
        /\ slip_vel' = slip
        /\ stator_phase_vel' = FAdd(rotor_phase_vel, slip)
        /\ phase_offset' = offs
        /\ stator_phase' = wrap_pm_pi(FAdd(rotor_phase, offs))
        /\ UNCHANGED active

AllPresent(i) == i.rotor_phase.has /\ i.rotor_phase_vel.has /\ i.idq.has

\* The ports as one call reads them: the values are read only once all
\* three has_value() tests have passed.
Read(rp, rpv, idq) ==
    IF rp.has /\ rpv.has /\ idq.has
    THEN [rotor_phase |-> rp, rotor_phase_vel |-> rpv, idq |-> idq]
    ELSE [rotor_phase |-> [has |-> rp.has, val |-> Zero],
          rotor_phase_vel |-> [has |-> rpv.has, val |-> Zero],
          idq |-> [has |-> idq.has, val |-> <<Zero, Zero>>]]

\* The port contents the calls are made with: every combination of present
\* and absent ports, and every combination of values when all are present.
Inputs ==
    {Read(rp, rpv, idq) : rp \in RotorPhaseIn, rpv \in RotorPhaseVelIn,
                          idq \in IdqIn}

\* Update whose bootstrap call does not store its timestamp.
Update_BootstrapKeepsTimestamp(a, i) ==
    LET timestamp == AddTicks(clock, a)
    IN  /\ calls < MaxCalls
        /\ calls' = calls + 1
        /\ clock' = timestamp
        /\ adv' = a
        /\ in' = i
        /\ UNCHANGED <<slip_velocity, bufv, ticks>>
        /\ IF ~i.rotor_phase.has \/ ~i.rotor_phase_vel.has \/ ~i.idq.has
           THEN /\ Deactivate
                /\ branch' = "deactivate"
                /\ since' = since + a
                /\ UNCHANGED <<seen, gapped>>
           ELSE /\ last_timestamp' = IF active THEN timestamp
                                      ELSE last_timestamp
                /\ since' = 0
                /\ seen' = TRUE
                /\ IF ~active
                   THEN /\ Bootstrap
                        /\ branch' = "bootstrap"
                        /\ gapped' = (since > 0)
                   ELSE \E dt \in {DeltaT(TickDiff(timestamp,
                                                     last_timestamp))} :
                        /\ Integrate(i.rotor_phase.val, i.rotor_phase_vel.val,
                                     i.idq.val[1], i.idq.val[2], dt)
                        /\ branch' = "integrate"
                        /\ UNCHANGED gapped

\* void AcimEstimator::update(uint32_t timestamp), called a ticks after
\* the previous call with the three ports holding i.
Update(a, i) ==
    LET timestamp == AddTicks(clock, a)
    IN  /\ calls < MaxCalls
        /\ calls' = calls + 1
        /\ clock' = timestamp
        /\ adv' = a
        /\ in' = i
        /\ UNCHANGED <<slip_velocity, bufv, ticks>>
        /\ IF ~i.rotor_phase.has \/ ~i.rotor_phase_vel.has \/ ~i.idq.has
           THEN /\ Deactivate
                /\ branch' = "deactivate"
                /\ since' = since + a
                /\ UNCHANGED <<seen, gapped>>
           ELSE /\ last_timestamp' = timestamp
                /\ since' = 0
                /\ seen' = TRUE
                /\ IF ~active
                   THEN /\ Bootstrap
                        /\ branch' = "bootstrap"
                        /\ gapped' = (since > 0)
                   ELSE \E dt \in {DeltaT(TickDiff(timestamp,
                                                     last_timestamp))} :
                        /\ Integrate(i.rotor_phase.val, i.rotor_phase_vel.val,
                                     i.idq.val[1], i.idq.val[2], dt)
                        /\ branch' = "integrate"
                        /\ UNCHANGED gapped

Next == \E a \in Advances, i \in Inputs : Update(a, i) /\ UNCHANGED pairv

Spec == Init /\ [][Next]_vars

\* ---------------------------------------------------------- the scenario
\* The calls of the worked example: the counter starts at 0 and advances by
\* 800 ticks (0.1 ms at ClockHz) or not at all, the slip gain is 50, and
\* the ports hold rotor_phase = 0, rotor_phase_vel = 100, id in {0, 10},
\* iq in {0, 5}, or are absent.
ScenarioAdvances == {0, 800}

ScenarioInputs ==
    {Read(rp, rpv, idq) :
        rp \in {None(Zero), Some(Zero)},
        rpv \in {None(Zero), Some(<<100, 1>>)},
        idq \in {None(<<Zero, Zero>>)}
                \cup {Some(<<d, q>>) : d \in {Zero, <<10, 1>>},
                                       q \in {Zero, <<5, 1>>}}}

InitScenario ==
    /\ active = FALSE
    /\ last_timestamp = ToTicks(0)
    /\ rotor_flux = Zero
    /\ phase_offset = Zero
    /\ slip_vel = Zero
    /\ stator_phase_vel = Zero
    /\ stator_phase = Zero
    /\ slip_velocity = <<50, 1>>
    /\ clock = ToTicks(0)
    /\ calls = 0
    /\ in = [rotor_phase |-> None(Zero), rotor_phase_vel |-> None(Zero),
             idq |-> None(<<Zero, Zero>>)]
    /\ branch = "none"
    /\ adv = 0
    /\ since = 0
    /\ seen = FALSE
    /\ gapped = FALSE
    /\ ticks = ToTicks(0)
    /\ InitOther
    /\ InitView

NextScenario ==
    /\ calls < MaxScenarioCalls
    /\ \E a \in ScenarioAdvances, i \in ScenarioInputs :
           Update(a, i) /\ UNCHANGED pairv

SpecScenario == InitScenario /\ [][NextScenario]_vars

\* ------------------------------------------------------- two estimators
\* update(timestamp) on the estimator e, with the three ports holding i:
\* the estimator after the call.
UpdateOf(e, timestamp, i) ==
    IF ~i.rotor_phase.has \/ ~i.rotor_phase_vel.has \/ ~i.idq.has
    THEN [e EXCEPT !.active = FALSE]
    ELSE IF ~e.active
    THEN [e EXCEPT !.last_timestamp = timestamp,
                   !.rotor_flux = Zero,
                   !.phase_offset = Zero,
                   !.active = TRUE]
    ELSE LET dt   == DeltaT(TickDiff(timestamp, e.last_timestamp))
             flux == FluxStep(e.rotor_flux, i.idq.val[1], dt)
             slip == ClampSlip(RawSlip(i.idq.val[2], flux), dt)
             offs == wrap_pm_pi(FAdd(e.phase_offset, FMul(slip, dt)))
         IN  [e EXCEPT !.last_timestamp = timestamp,
                       !.rotor_flux = flux,
                       !.slip_vel = slip,
                       !.stator_phase_vel =
                           FAdd(i.rotor_phase_vel.val, slip),
                       !.phase_offset = offs,
                       !.stator_phase =
                           wrap_pm_pi(FAdd(i.rotor_phase.val, offs))]

\* Inputs and timestamp advances of the calls on two estimators.
PairInputs ==
    {Read(None(Zero), None(Zero), None(<<Zero, Zero>>)),
     Read(Some(<<31, 10>>), Some(<<100, 1>>), Some(<<<<10, 1>>, <<1, 2>>>>)),
     Read(Some(<<31, 10>>), Some(<<100, 1>>), Some(<<Zero, <<5, 1>>>>))}

\* Timestamp advances of the second estimator's own calls, and of the
\* calls on both: with slip_gain 50 a 160000-tick step has
\* slip_gain * dt = 1, so the joint calls keep the values small whatever
\* the second estimator's own calls left behind.
SoloAdvances == {80000}

PairAdvances == {0, 160000}

\* The fields of the first estimator that the second has as well.
EstState == <<rotor_flux, phase_offset, last_timestamp, slip_vel,
              stator_phase_vel, stator_phase>>

OtherState == <<other.rotor_flux, other.phase_offset, other.last_timestamp,
                other.slip_vel, other.stator_phase_vel, other.stator_phase>>

\* A call on the second estimator alone, before the two are called
\* together.
OtherUpdate(a, i) ==
    /\ calls = 0
    /\ other.calls < MaxSoloCalls
    /\ clock' = AddTicks(clock, a)
    /\ other' = [UpdateOf(other, clock', i) EXCEPT !.calls = @ + 1]
    /\ UNCHANGED <<est, slip_velocity, calls, in, branch, adv, since, seen,
                   gapped, ticks, bufv, synced, differed>>

\* One call on each of the two estimators with the same timestamp.
PairUpdate(a, i1, i2) ==
    /\ Update(a, i1)
    /\ other' = UpdateOf(other, AddTicks(clock, a), i2)
    /\ IF AllPresent(i1) /\ AllPresent(i2) /\ ~active /\ ~other.active
       THEN /\ synced' = TRUE
            /\ differed' = (EstState # OtherState)
       ELSE /\ synced' = (synced /\ i1 = i2 /\ AllPresent(i1))
            /\ differed' = (differed /\ synced')

InitPair == Init /\ slip_velocity = <<50, 1>>

NextPair ==
    \/ \E a \in SoloAdvances, i \in PairInputs : OtherUpdate(a, i)
    \/ \E a \in PairAdvances, i1 \in PairInputs, i2 \in PairInputs :
           PairUpdate(a, i1, i2)

SpecPair == InitPair /\ [][NextPair]_vars

\* ------------------------------------------------- timestamps in any order
\* Timestamps handed to update: around 0, around 2^31 and around 2^32, in
\* any order.
Stamps ==
    {ToTicks(0), ToTicks(1), ToTicks(800), ToTicks(80000), ToTicks(240000),
     <<32767, 65535>>, <<32768, 0>>, <<32768, 1>>,
     <<65534, 51072>>, <<65535, 0>>, <<65535, 65534>>, <<65535, 65535>>}

\* Lines 32 and 33 of update, for a timestamp in any order with the one
\* stored: the difference of the two words is taken and the timestamp is
\* stored.
TickStep(timestamp) ==
    /\ ticks' = TickDiff(timestamp, last_timestamp)
    /\ last_timestamp' = timestamp
    /\ clock' = timestamp
    /\ UNCHANGED <<active, rotor_flux, phase_offset, slip_vel,
                   stator_phase_vel, stator_phase, slip_velocity,
                   calls, in, branch, adv, since, seen, gapped, bufv,
                   pairv>>

InitTicks == Init /\ slip_velocity = Zero

NextTicks == \E timestamp \in Stamps : TickStep(timestamp)

SpecTicks == InitTicks /\ [][NextTicks]_vars

\* ---------------------------------------------------- buffer operations
\* bufptr_t buf(data, length); size_t processed = 0;
Construct(length) ==
    /\ buf' = bufptr(0, length)
    /\ ret' = buf'
    /\ bop' = "construct"
    /\ barg' = length
    /\ bptr' = FALSE
    /\ bpair' = FALSE
    /\ processed' = 0
    /\ UNCHANGED <<est, slip_velocity, hist, pairv>>

\* buf += num;  the operator returns *this.
PlusAssign(num) ==
    /\ buf' = plus_assign(buf, num)
    /\ ret' = buf'
    /\ bop' = "plus_assign"
    /\ barg' = num
    /\ bptr' = FALSE
    /\ bpair' = FALSE
    /\ UNCHANGED <<processed, est, slip_velocity, hist, pairv>>

\* old = buf++;  result = *this; *this += 1; return result;
PostIncrement ==
    /\ ret' = buf
    /\ buf' = plus_assign(buf, 1)
    /\ bop' = "post_increment"
    /\ barg' = 1
    /\ bptr' = FALSE
    /\ bpair' = FALSE
    /\ UNCHANGED <<processed, est, slip_velocity, hist, pairv>>

\* taken = buf.take(num);
Take(num) ==
    /\ ret' = take(buf, num)
    /\ bop' = "take"
    /\ barg' = num
    /\ bptr' = FALSE
    /\ bpair' = FALSE
    /\ UNCHANGED <<buf, processed, est, slip_velocity, hist, pairv>>

\* The counter after a skip(num, ptr) on the view b: untouched when ptr is
\* the null pointer.
Counted(b, num, ptr) ==
    IF ptr THEN processed + skip_processed(b, num) ELSE processed

\* skipped = buf.skip(num);  or  skipped = buf.skip(num, &processed);
Skip(num, ptr) ==
    /\ Counted(buf, num, ptr) <= MaxProcessed
    /\ ret' = skip(buf, num)
    /\ processed' = Counted(buf, num, ptr)
    /\ bop' = "skip"
    /\ barg' = num
    /\ bptr' = ptr
    /\ bpair' = (bop = "take" /\ barg = num)
    /\ UNCHANGED <<buf, est, slip_velocity, hist, pairv>>

\* A chained call on the view just returned by skip: buf.skip(a).skip(num)
\* or skip1.skip(num, &processed).
ChainSkip(num, ptr) ==
    /\ bop \in {"skip", "chain_skip"}
    /\ Counted(ret, num, ptr) <= MaxProcessed
    /\ ret' = skip(ret, num)
    /\ processed' = Counted(ret, num, ptr)
    /\ bop' = "chain_skip"
    /\ barg' = num
    /\ bptr' = ptr
    /\ bpair' = FALSE
    /\ UNCHANGED <<buf, est, slip_velocity, hist, pairv>>

InitBuf == Init /\ slip_velocity = Zero

NextBuf ==
    \/ \E length \in Lengths : Construct(length)
    \/ \E num \in Nums : PlusAssign(num)
    \/ PostIncrement
    \/ \E num \in Nums : Take(num)
    \/ \E num \in Nums, ptr \in BOOLEAN : Skip(num, ptr)
    \/ \E num \in Nums, ptr \in BOOLEAN : ChainSkip(num, ptr)

SpecBuf == InitBuf /\ [][NextBuf]_vars

\* ------------------------------------------------------------ properties
\* This step is one update call.
IsCall == calls' = calls + 1

\* This step is an update call that finds all inputs present while the
\* estimator is active: an integration step.
IsIntegration == IsCall /\ AllPresent(in') /\ active

\* dt of an integration step, from the ticks that truly passed since the
\* previous call.
TrueDt == Norm(adv', ClockHz)

One == <<1, 1>>

InPmPi(x) == FLe(FNeg(Pi), x) /\ FLe(x, Pi)

\* y lies between x and z (inclusive).
Between(x, y, z) == (FLe(x, y) /\ FLe(y, z)) \/ (FLe(z, y) /\ FLe(y, x))

\* C1: a call with any of the three inputs absent sets active = false and
\* leaves rotor_flux, phase_offset, stator_phase, stator_phase_vel, slip_vel
\* and last_timestamp as they were.
C1_AbsentInputDeactivates ==
    [][(IsCall /\ ~AllPresent(in'))
        => (/\ active' = FALSE
            /\ UNCHANGED <<rotor_flux, phase_offset, stator_phase,
                           stator_phase_vel, slip_vel, last_timestamp>>)]_vars

\* A call with only rotor_phase_vel absent has deactivated an estimator
\* that had integrated a non-zero flux and phase offset.
C1_Witness ==
    /\ branch = "deactivate"
    /\ in.rotor_phase.has /\ ~in.rotor_phase_vel.has /\ in.idq.has
    /\ ~active
    /\ IsFinite(rotor_flux) /\ rotor_flux # Zero
    /\ phase_offset # Zero

\* C2: a call with all inputs present while active = false sets
\* rotor_flux = 0, phase_offset = 0, active = true and leaves stator_phase,
\* stator_phase_vel and slip_vel as they were.
C2_BootstrapResets ==
    [][(IsCall /\ AllPresent(in') /\ ~active)
        => (/\ rotor_flux' = Zero
            /\ phase_offset' = Zero
            /\ active' = TRUE
            /\ UNCHANGED <<stator_phase, stator_phase_vel, slip_vel>>)]_vars

\* A re-activation after a gap: the outputs of the integration before the
\* gap are still there, and the inputs of the bootstrap call are non-zero.
C2_Witness ==
    /\ branch = "bootstrap"
    /\ active
    /\ slip_vel # Zero /\ stator_phase # Zero
    /\ in.idq.val[1] # Zero /\ in.idq.val[2] # Zero

\* C3: phase_offset and stator_phase lie in [-pi, pi] after every update
\* call, for every sequence of calls and timestamps.
C3_PhasesInRange == InPmPi(phase_offset) /\ InPmPi(stator_phase)

\* C4: on an integration step slip_vel is slip_gain * (iq / rotor_flux),
\* with the updated rotor_flux, when that value is finite and at most
\* 0.1/dt in magnitude, and 0 in every other case.
C4_SlipClamp ==
    [][IsIntegration
        => LET raw == FMul(slip_velocity, FDiv(in'.idq.val[2], rotor_flux'))
           IN  IF IsFinite(raw) /\ FLe(FAbs(raw), FDiv(Tenth, TrueDt))
               THEN slip_vel' = raw
               ELSE slip_vel' = Zero]_vars

C6_FluxEuler ==
    [][IsCall
        => IF ~AllPresent(in') THEN rotor_flux' = rotor_flux
           ELSE IF ~active THEN rotor_flux' = Zero
           ELSE \A dt \in {TrueDt} :
                \A err \in {FSub(in'.idq.val[1], rotor_flux)} :
                \A step \in {FMul(slip_velocity, FMul(err, dt))} :
                    rotor_flux' = FAdd(rotor_flux, step)]_vars

\* A second or later call that integrated for dt > 0 and moved a
\* non-zero flux part of the way to id.
C6_Witness ==
    /\ branch = "integrate"
    /\ IsFinite(rotor_flux) /\ rotor_flux # Zero
    /\ IsFinite(in.idq.val[1]) /\ rotor_flux # in.idq.val[1]
    /\ adv > 0
    /\ calls >= 3

\* C7 as stated: on every integration step with dt > 0 rotor_flux ends
\* between its previous value and id.
C7_MonotoneAnyDt ==
    [][(IsIntegration /\ adv' > 0 /\ IsFinite(in'.idq.val[1])
            /\ IsFinite(rotor_flux))
        => Between(rotor_flux, rotor_flux', in'.idq.val[1])]_vars

\* C7 amended: on every integration step with dt > 0 and
\* slip_gain * dt <= 1, with finite id and rotor_flux, rotor_flux ends
\* between its previous value and id, so |id - rotor_flux| does not
\* increase.
C7_MonotoneSmallDt ==
    [][(IsIntegration /\ adv' > 0 /\ IsFinite(in'.idq.val[1])
            /\ IsFinite(rotor_flux)
            /\ FLe(FMul(slip_velocity, TrueDt), One))
        => /\ Between(rotor_flux, rotor_flux', in'.idq.val[1])
           /\ \A after \in {FAbs(FSub(in'.idq.val[1], rotor_flux'))} :
              \A before \in {FAbs(FSub(in'.idq.val[1], rotor_flux))} :
                  FLe(after, before)]_vars

\* A 10 ms integration step (slip_gain * dt = 1/2) that moved the flux
\* strictly between its previous non-zero value and id.
C7_Witness ==
    /\ branch = "integrate"
    /\ adv = 80000
    /\ slip_velocity = <<50, 1>>
    /\ in.idq.val[1] = Zero
    /\ FGt(rotor_flux, Zero)

\* C8: the tick difference computed by a call with all inputs present is
\* the number of ticks that passed since the previous such call, also when
\* the counter wrapped in between.
C8_WrapDifference ==
    [][(IsCall /\ AllPresent(in') /\ seen)
        => TickDiff(clock', last_timestamp) = ToTicks(since + adv')]_vars

\* An integration step whose timestamp is numerically smaller than
\* last_timestamp was: the counter wrapped since the previous call.
C8_Witness ==
    /\ branch = "integrate"
    /\ adv > 0
    /\ TicksLess(clock, ToTicks(adv))
    /\ rotor_flux # Zero

\* C9: every call with all inputs present sets last_timestamp to its
\* timestamp, and no other call changes last_timestamp.
C9_TimestampStored ==
    [][IsCall
        => IF AllPresent(in') THEN last_timestamp' = clock'
           ELSE last_timestamp' = last_timestamp]_vars

\* An absent-input call made some ticks after the bootstrap call: the
\* timestamp of the bootstrap is still stored.
C9_Witness ==
    /\ branch = "deactivate"
    /\ seen
    /\ since > 0
    /\ last_timestamp # clock
    /\ last_timestamp # ToTicks(0)

\* C10: the estimator starts inactive; after every call active tells
\* whether all inputs were present, and the call took the deactivate
\* branch (an input absent), the bootstrap branch (all present, inactive
\* before) or the integrate branch (all present, active before).
C10_TwoStateMachine ==
    /\ active = FALSE
    /\ [][IsCall
           => /\ active' = AllPresent(in')
              /\ branch' = IF ~AllPresent(in') THEN "deactivate"
                           ELSE IF active THEN "integrate"
                           ELSE "bootstrap"]_vars

\* Active, inactive, and active again by a second bootstrap.
C10_Witness ==
    /\ branch = "bootstrap"
    /\ active
    /\ calls >= 3
    /\ last_timestamp # ToTicks(0)
    /\ stator_phase_vel = Zero

\* The three outputs hold what this call computes from its inputs.
OutputsWritten ==
    /\ slip_vel' \in {Zero, FMul(slip_velocity,
                                 FDiv(in'.idq.val[2], rotor_flux'))}
    /\ stator_phase_vel' = FAdd(in'.rotor_phase_vel.val, slip_vel')
    /\ stator_phase' = wrap_pm_pi(FAdd(in'.rotor_phase.val, phase_offset'))

OutputsHeld == UNCHANGED <<stator_phase, stator_phase_vel, slip_vel>>

\* C11 as stated: the three outputs are written on every call that
\* completes with active = true and hold their values on every other call.
C11_WrittenWhenActiveAfter ==
    [][IsCall => IF active' THEN OutputsWritten ELSE OutputsHeld]_vars

\* C11 amended: the three outputs are written on every integration step (a
\* call with all inputs present that starts with active = true) and hold
\* their values on every other call, the bootstrap call included.
C11_WrittenOnIntegration ==
    [][IsCall => IF AllPresent(in') /\ active THEN OutputsWritten
                 ELSE OutputsHeld]_vars

\* A bootstrap call after a gap: it completed with active = true and the
\* outputs still are those of the integration before the gap, which differ
\* from what this call's inputs would give.
C11_Witness ==
    /\ branch = "bootstrap"
    /\ active
    /\ calls >= 3
    /\ stator_phase_vel # Zero
    /\ stator_phase # in.rotor_phase.val

\* C12: an integration step takes phase_offset to
\* wrap(phase_offset + slip * dt) with the clamped slip of this step, and
\* stator_phase to wrap(rotor_phase + phase_offset) with the phase_offset
\* just updated.
C12_PhaseIntegration ==
    [][IsIntegration
        => \A inc \in {FMul(slip_vel', TrueDt)} :
           \A sum \in {FAdd(phase_offset, inc)} :
              /\ phase_offset' = wrap_pm_pi(sum)
              /\ \A ph \in {FAdd(in'.rotor_phase.val, phase_offset')} :
                     stator_phase' = wrap_pm_pi(ph)]_vars

\* A second integration step with a non-zero slip: the offset grew from a
\* non-zero value and rotor_phase + phase_offset passed pi and was wrapped
\* to a negative stator_phase.
C12_Witness ==
    /\ branch = "integrate"
    /\ calls >= 3
    /\ slip_vel # Zero /\ IsFinite(slip_vel)
    /\ adv > 0
    /\ FGt(phase_offset, FMul(slip_vel, Norm(adv, ClockHz)))
    /\ FGt(Zero, stator_phase)

\* The ports of the second call of the worked example.
ScenarioSecondCall ==
    [rotor_phase |-> Some(Zero), rotor_phase_vel |-> Some(<<100, 1>>),
     idq |-> Some(<<<<10, 1>>, <<5, 1>>>>)]

\* C13: with 8,000,000 ticks/s and slip gain 50, a first call at timestamp
\* 0 with all inputs present makes the estimator active with rotor_flux = 0
\* and phase_offset = 0; a second call at timestamp 800 with id = 10,
\* iq = 5, rotor_phase = 0, rotor_phase_vel = 100 gives rotor_flux = 0.05,
\* a raw slip of 5000 above the threshold 1000 and so slip 0,
\* stator_phase_vel = 100, phase_offset = 0 and stator_phase = 0.
C13_Scenario ==
    [][/\ (IsCall /\ calls = 0 /\ clock' = ToTicks(0) /\ AllPresent(in'))
            => (~active /\ active' /\ rotor_flux' = Zero
                /\ phase_offset' = Zero)
       /\ (IsCall /\ calls = 1 /\ clock = ToTicks(0) /\ AllPresent(in)
            /\ clock' = ToTicks(800) /\ in' = ScenarioSecondCall)
            => (/\ rotor_flux' = <<1, 20>>
                /\ RawSlip(<<5, 1>>, <<1, 20>>) = <<5000, 1>>
                /\ FDiv(Tenth, DeltaT(ToTicks(800))) = <<1000, 1>>
                /\ slip_vel' = Zero
                /\ stator_phase_vel' = <<100, 1>>
                /\ phase_offset' = Zero
                /\ stator_phase' = Zero
                /\ active')]_vars

\* The state after the second call of the worked example.
C13_Witness ==
    /\ calls = 2
    /\ branch = "integrate"
    /\ clock = ToTicks(800) /\ adv = 800
    /\ in = ScenarioSecondCall
    /\ rotor_flux = <<1, 20>>
    /\ slip_vel = Zero

\* C14: an integration step whose raw slip is NaN or larger than 0.1/dt in
\* magnitude leaves the estimator active and goes on with slip 0:
\* slip_vel = 0, stator_phase_vel = rotor_phase_vel, phase_offset keeps its
\* value, and rotor_flux still gets the flux update of this step.
C14_InvalidSlipRecovered ==
    [][IsIntegration
        => \A raw \in {FMul(slip_velocity,
                            FDiv(in'.idq.val[2], rotor_flux'))} :
           (IsNaN(raw) \/ FGt(FAbs(raw), FDiv(Tenth, TrueDt)))
            => /\ active'
               /\ slip_vel' = Zero
               /\ stator_phase_vel' = in'.rotor_phase_vel.val
               /\ phase_offset' = phase_offset
               /\ \A err \in {FSub(in'.idq.val[1], rotor_flux)} :
                  \A step \in {FMul(FMul(slip_velocity, err), TrueDt)} :
                      rotor_flux' = FAdd(rotor_flux, step)]_vars

\* An integration step with id = NaN: the flux and with it the raw slip
\* became NaN, the slip is 0 and the non-zero phase offset was kept.
C14_Witness ==
    /\ branch = "integrate"
    /\ active
    /\ IsNaN(rotor_flux)
    /\ in.idq.val[2] # Zero
    /\ slip_vel = Zero
    /\ IsFinite(phase_offset) /\ phase_offset # Zero

\* C15: a call with all inputs present that follows a call with all inputs
\* present integrates and writes the three outputs; a call with all inputs
\* present that follows an absent-input call, or is the first call, leaves
\* the three outputs as they were.
C15_OneCycleSacrificed ==
    [][(IsCall /\ AllPresent(in'))
        => IF calls >= 1 /\ AllPresent(in)
           THEN branch' = "integrate" /\ OutputsWritten
           ELSE branch' = "bootstrap" /\ OutputsHeld]_vars

\* The second of the first two calls, both with all inputs present: it
\* integrated and wrote a non-zero slip.
C15_Witness ==
    /\ calls = 2
    /\ branch = "integrate"
    /\ slip_vel # Zero /\ IsFinite(slip_vel)
    /\ stator_phase_vel = FAdd(in.rotor_phase_vel.val, slip_vel)

\* C17: on an integration step with dt > 0 the increment slip * dt added to
\* phase_offset is at most 0.1 in magnitude.
C17_SlipIncrementBounded ==
    [][(IsIntegration /\ adv' > 0)
        => FLe(FAbs(FMul(slip_vel', TrueDt)), Tenth)]_vars

\* A 30 ms integration step that kept a non-zero slip.
C17_Witness ==
    /\ branch = "integrate"
    /\ adv = 240000
    /\ IsFinite(slip_vel) /\ slip_vel # Zero
    /\ phase_offset # Zero

\* C16: in every reachable state every update call, with any advance of the
\* timestamp and any combination of present and absent inputs, can be taken
\* and completes; one call leads to Active and one call leads to Inactive;
\* and after every call with all inputs present the estimator is Active, so
\* it stays Active for as long as the inputs stay present.  (The run of the
\* model ends after MaxCalls calls.)
C16_NoTerminalState ==
    /\ calls < MaxCalls
        => /\ \A a \in Advances, i \in Inputs : ENABLED Update(a, i)
           /\ ENABLED (Next /\ active')
           /\ ENABLED (Next /\ ~active')
    /\ (calls >= 1 /\ AllPresent(in)) => active

\* An Active state with zero flux and a NaN phase offset, reached through
\* the division by zero of a repeated timestamp, with calls still to come.
C16_Witness ==
    /\ calls >= 1 /\ calls < MaxCalls
    /\ active
    /\ rotor_flux = Zero
    /\ IsNaN(phase_offset)

Min(m, n) == IF m < n THEN m ELSE n

\* C18: skip(n) on the view [begin, end) of size s returns the view
\* [begin + min(n, s), end), of size s - min(n, s) and empty when n >= s,
\* and leaves the view it is called on unchanged; skip(0) returns an equal
\* view.
C18_SkipClamped ==
    [][bop' = "skip"
        => \A n \in {barg'} : \A s \in {buf.end_ - buf.begin_} :
            /\ ret'.begin_ = buf.begin_ + Min(n, s)
            /\ ret'.end_ = buf.end_
            /\ size(ret') = s - Min(n, s)
            /\ (n >= s => empty(ret'))
            /\ (n = 0 => ret' = buf)
            /\ buf' = buf]_vars

\* SkipMoreThanAvailable: skip(10) on a view of 5 elements is empty and the
\* view still has its 5 elements.
C18_Witness ==
    /\ bop = "skip" /\ barg = 10
    /\ size(buf) = 5
    /\ empty(ret) /\ ret.begin_ = buf.end_

\* C19: take(n) on the view [begin, end) of size s returns the view
\* [begin, begin + min(n, s)), of size min(n, s) and not reaching past end,
\* and leaves the view it is called on unchanged.
C19_TakeClamped ==
    [][bop' = "take"
        => \A n \in {barg'} : \A s \in {buf.end_ - buf.begin_} :
            /\ ret'.begin_ = buf.begin_
            /\ ret'.end_ = buf.begin_ + Min(n, s)
            /\ size(ret') = Min(n, s)
            /\ ret'.end_ <= buf.end_
            /\ buf' = buf]_vars

\* TakeMoreThanAvailable: take(10) on a view of 5 elements has 5 elements.
C19_Witness ==
    /\ bop = "take" /\ barg = 10
    /\ size(buf) = 5
    /\ size(ret) = 5 /\ ret = buf

\* C20: buf += n moves begin forward by min(n, size) and leaves end where it
\* is: more than the size gives the empty view, 0 changes nothing.  The
\* post-increment returns the view as it was and advances by one.  After
\* either, begin <= end and the size has not grown.
C20_AdvanceInPlace ==
    [][/\ bop' = "plus_assign"
          => \A n \in {barg'} : \A s \in {buf.end_ - buf.begin_} :
              /\ buf'.begin_ = buf.begin_ + Min(n, s)
              /\ buf'.end_ = buf.end_
              /\ (n > s => empty(buf'))
              /\ (n = 0 => buf' = buf)
       /\ bop' = "post_increment"
          => /\ ret' = buf
             /\ buf' = bufptr_range(buf.begin_ + Min(1, size(buf)), buf.end_)
       /\ bop' \in {"plus_assign", "post_increment"}
          => /\ buf'.begin_ <= buf'.end_
             /\ size(buf') <= size(buf)]_vars

\* PostIncrementOperator: old = buf++ on a view of 5 elements returned the
\* 5 elements and left 4.
C20_Witness ==
    /\ bop = "post_increment"
    /\ size(ret) = 5 /\ ret.begin_ = 0
    /\ size(buf) = 4 /\ buf.begin_ = 1

\* C21: a skip handed the caller's counter adds to it the number of bytes
\* that call skipped, and a skip without a counter leaves it alone.  A skip
\* of b chained to a skip of a gives the view skip(a + b) gives:
\* [begin + min(a + b, size), end).  When both were handed the counter, the
\* counter was 0 before the first and a + b <= size, it reads a + b and the
\* result begins at begin + a + b.
C21_SkipCountsAndComposes ==
    [][/\ bop' = "skip"
          => processed' = processed
                + (IF bptr' THEN size(buf) - size(ret') ELSE 0)
       /\ bop' = "chain_skip"
          => /\ processed' = processed
                   + (IF bptr' THEN size(ret) - size(ret') ELSE 0)
             /\ ret'.end_ = buf.end_
             /\ ret'.begin_ = Min(ret.begin_ + barg', buf.end_)
       /\ (bop = "skip" /\ bop' = "chain_skip")
          => \A a \in {barg} : \A b \in {barg'} :
             /\ ret'.begin_ = buf.begin_ + Min(a + b, size(buf))
             /\ ret'.end_ = buf.end_
             /\ (bptr /\ bptr' /\ processed = a /\ a + b <= size(buf))
                 => /\ processed' = a + b
                    /\ ret'.begin_ = buf.begin_ + a + b]_vars

\* SkipMultipleTimesWithCounter: skip(2, &processed) then skip(3,
\* &processed) on a view of 10 elements: processed is 5 and the result is
\* the 5 elements from data + 5.
C21_Witness ==
    /\ bop = "chain_skip" /\ barg = 3 /\ bptr
    /\ buf = bufptr(0, 10)
    /\ processed = 5
    /\ ret.begin_ = 5 /\ size(ret) = 5

\* C22: take(n) and skip(n) of the same view split it in two: take(n)
\* begins where the view begins, skip(n) begins where take(n) ends and ends
\* where the view ends, and their sizes add up to the size of the view.
C22_TakeSkipPartition ==
    [][(bop = "take" /\ bop' = "skip" /\ barg' = barg)
        => /\ buf' = buf
           /\ ret.begin_ = buf.begin_
           /\ ret.end_ = ret'.begin_
           /\ ret'.end_ = buf.end_
           /\ size(ret) + size(ret') = size(buf)
           /\ buf.begin_ <= ret.end_ /\ ret.end_ <= buf.end_]_vars

\* TakeAndSkipCombination: take(3) gave the first 3 of 10 elements, and
\* skip(3) the other 7.
C22_Witness ==
    /\ bpair
    /\ bop = "skip" /\ barg = 3
    /\ buf = bufptr(0, 10)
    /\ ret = bufptr_range(3, 10)

\* C23: an integration step starts with last_timestamp equal to the
\* timestamp of the call right before it, so the tick difference it takes
\* is the ticks between these two calls and the flux is integrated over
\* exactly that time; a call that finds the inputs back after inactive
\* cycles is a bootstrap: it stores its timestamp and sets rotor_flux and
\* phase_offset to 0 whatever time has passed.
C23_DtSpansOneCall ==
    [][/\ IsIntegration
          => /\ last_timestamp = clock
             /\ TickDiff(clock', last_timestamp) = ToTicks(adv')
             /\ \A err \in {FSub(in'.idq.val[1], rotor_flux)} :
                \A step \in {FMul(FMul(slip_velocity, err), TrueDt)} :
                    rotor_flux' = FAdd(rotor_flux, step)
       /\ (IsCall /\ AllPresent(in') /\ ~active)
          => /\ last_timestamp' = clock'
             /\ rotor_flux' = Zero
             /\ phase_offset' = Zero]_vars

\* A 10 ms integration step after a bootstrap that followed inactive cycles
\* in which time passed: the flux rose from 0 to 50 * (10 - 0) * 0.01 = 5.
C23_Witness ==
    /\ branch = "integrate"
    /\ gapped
    /\ adv = 80000
    /\ slip_velocity = <<50, 1>>
    /\ rotor_flux = <<5, 1>>
    /\ last_timestamp = clock

\* C24: the tick difference taken for dt is a value in 0 .. 2^32 - 1: both
\* halves are in 0 .. 2^16 - 1.  It is timestamp - last_timestamp when the
\* timestamp is not the earlier one and 2^32 - (last_timestamp - timestamp),
\* not zero, when it is; equal timestamps give the difference 0 and dt = 0.
C24_TickDiffUnsigned ==
    [][\A ts \in {clock'} : \A last \in {last_timestamp} :
       \A d \in {ticks'} :
       \A c \in {d[2] + last[2] - ts[2]} :
        /\ d[1] \in 0 .. (LimbBase - 1)
        /\ d[2] \in 0 .. (LimbBase - 1)
        /\ c % LimbBase = 0
        /\ d[1] + last[1] - ts[1] + (c \div LimbBase)
              = (IF TicksLess(ts, last) THEN LimbBase ELSE 0)
        /\ TicksLess(ts, last) => d # ToTicks(0)
        /\ ts = last => (d = ToTicks(0) /\ DeltaT(d) = Zero)]_vars

\* The timestamp 0 after the timestamp 800: the difference is 2^32 - 800.
C24_Witness ==
    /\ clock = ToTicks(0)
    /\ last_timestamp = ToTicks(0)
    /\ ticks = <<65535, 65536 - 800>>

\* C25: an integration step with dt = 0 (the timestamp of the call before),
\* finite id and iq and a finite non-zero rotor_flux leaves rotor_flux and
\* phase_offset as they are, does not clamp the slip, and writes the
\* outputs from the inputs of this call: slip_vel = slip_gain * iq /
\* rotor_flux, stator_phase_vel = rotor_phase_vel + slip_vel, stator_phase =
\* wrap(rotor_phase + phase_offset).
C25_ZeroDtStep ==
    [][(/\ IsIntegration
        /\ adv' = 0
        /\ IsFinite(in'.idq.val[1]) /\ IsFinite(in'.idq.val[2])
        /\ IsFinite(rotor_flux) /\ rotor_flux # Zero)
        => /\ rotor_flux' = rotor_flux
           /\ phase_offset' = phase_offset
           /\ slip_vel' = FMul(slip_velocity,
                               FDiv(in'.idq.val[2], rotor_flux))
           /\ stator_phase_vel' = FAdd(in'.rotor_phase_vel.val, slip_vel')
           /\ stator_phase' = wrap_pm_pi(FAdd(in'.rotor_phase.val,
                                              phase_offset))]_vars

\* A step with a repeated timestamp at rotor_flux = 5 and iq = 5: the slip
\* 50 * 5 / 5 = 50 was written although it is above 0.1/dt of any dt > 0
\* of the model.
C25_Witness ==
    /\ branch = "integrate"
    /\ adv = 0
    /\ rotor_flux = <<5, 1>>
    /\ in.idq.val[2] = <<5, 1>>
    /\ slip_vel = <<50, 1>>
    /\ stator_phase_vel = <<150, 1>>

\* C26: an integration step with dt > 0 that leaves rotor_flux at zero
\* divides iq by zero, which is NaN when iq = 0 and infinite when iq # 0;
\* the raw slip is not a finite value, and the step ends
\* with slip_vel = 0, stator_phase_vel = rotor_phase_vel, phase_offset as it
\* was and stator_phase = wrap(rotor_phase + phase_offset).
C26_ZeroFluxSlip ==
    [][(IsIntegration /\ adv' > 0 /\ rotor_flux' = Zero)
        => /\ \A q \in {FDiv(in'.idq.val[2], rotor_flux')} :
              /\ IF in'.idq.val[2] = Zero THEN IsNaN(q) ELSE IsInf(q)
              /\ ~IsFinite(FMul(slip_velocity, q))
           /\ slip_vel' = Zero
           /\ stator_phase_vel' = in'.rotor_phase_vel.val
           /\ phase_offset' = phase_offset
           /\ stator_phase' = wrap_pm_pi(FAdd(in'.rotor_phase.val,
                                              phase_offset))]_vars

\* A 10 ms step with id = 0 since the bootstrap and iq = 5 at gain 50: the
\* flux is still zero, the slip is 0.
C26_Witness ==
    /\ branch = "integrate"
    /\ adv = 80000
    /\ slip_velocity = <<50, 1>>
    /\ rotor_flux = Zero
    /\ in.idq.val[2] = <<5, 1>>
    /\ slip_vel = Zero
    /\ stator_phase_vel = in.rotor_phase_vel.val

\* C27: an integration step first updates rotor_flux from its old value and
\* id, takes the raw slip from the updated rotor_flux, clamps it, and uses
\* the one clamped value for slip_vel, stator_phase_vel and phase_offset.
C27_ComputationOrder ==
    [][IsIntegration
        => \A dt \in {TrueDt} :
           \A flux \in {FAdd(rotor_flux,
                             FMul(FMul(slip_velocity,
                                       FSub(in'.idq.val[1], rotor_flux)),
                                  dt))} :
           \A raw \in {FMul(slip_velocity, FDiv(in'.idq.val[2], flux))} :
           \A s \in {IF IsNaN(raw) \/ FGt(FAbs(raw), FDiv(Tenth, dt))
                     THEN Zero ELSE raw} :
              /\ rotor_flux' = flux
              /\ slip_vel' = s
              /\ stator_phase_vel' = FAdd(in'.rotor_phase_vel.val, s)
              /\ phase_offset' = wrap_pm_pi(FAdd(phase_offset,
                                                 FMul(s, dt)))]_vars

\* The flux went from 5 to 7.5 in a 10 ms step with iq = 1/2: the slip is
\* 50 * 0.5 / 7.5 = 10/3, taken from the new flux (5 would have given 5).
C27_Witness ==
    /\ branch = "integrate"
    /\ adv = 80000
    /\ rotor_flux = <<15, 2>>
    /\ in.idq.val[2] = <<1, 2>>
    /\ slip_vel = <<10, 3>>
    /\ stator_phase_vel = <<310, 3>>

\* C29: an integration step that starts with rotor_flux not a number ends
\* with rotor_flux not a number, slip_vel = 0 and active still true,
\* whatever id is; rotor_flux goes from not-a-number to a number only on a
\* bootstrap call, and that call follows an absent-input call.
C29_NaNFluxSticks ==
    [][/\ (IsIntegration /\ IsNaN(rotor_flux))
          => /\ IsNaN(rotor_flux')
             /\ slip_vel' = Zero
             /\ active'
       /\ (IsNaN(rotor_flux) /\ ~IsNaN(rotor_flux'))
          => /\ branch' = "bootstrap"
             /\ ~active
             /\ ~AllPresent(in)
             /\ AllPresent(in')
             /\ rotor_flux' = Zero]_vars

\* An integration step with id = 10 after one with id = NaN: the flux is
\* still not a number and the slip is 0.
C29_Witness ==
    /\ branch = "integrate"
    /\ active
    /\ IsNaN(rotor_flux)
    /\ in.idq.val[1] = <<10, 1>>
    /\ slip_vel = Zero
    /\ stator_phase_vel = in.rotor_phase_vel.val

\* C28: two estimators with the same slip gain and different call
\* histories that bootstrap in the same call and get the same all-present
\* inputs in every call after it have the same rotor_flux, phase_offset,
\* last_timestamp and active from the bootstrap on, and the same
\* stator_phase, stator_phase_vel and slip_vel after every call that
\* follows the bootstrap.
C28_BootstrapErasesHistory ==
    synced
     => /\ rotor_flux = other.rotor_flux
        /\ phase_offset = other.phase_offset
        /\ last_timestamp = other.last_timestamp
        /\ active /\ other.active
        /\ branch = "integrate"
            => /\ stator_phase = other.stator_phase
               /\ stator_phase_vel = other.stator_phase_vel
               /\ slip_vel = other.slip_vel

\* Two estimators that differed before their common bootstrap, after an
\* integration step that followed it: both wrote the slip 5/2.
C28_Witness ==
    /\ synced /\ differed
    /\ branch = "integrate"
    /\ rotor_flux = <<10, 1>>
    /\ slip_vel = <<5, 2>>
    /\ other.slip_vel = <<5, 2>>
====
